---- MODULE Spec2Model ----
(***************************************************************************)
(* Streaming SQL execution of DORM: the pull-driven stream producer of     *)
(* DORM.fetch (/exec), the ClientSqlCursor, and the client's exec with its *)
(* retry loop, timeout race and background stream reader.                  *)
(*                                                                         *)
(* Text is modelled as a sequence of code units.  A code unit is a string  *)
(* token: the opening of a JSON object together with its type member       *)
(* ("{columns", "{row", "{meta", "{error"), one token per payload element, *)
(* the closing "}", the line feed "\n" and blank " ".                      *)
(***************************************************************************)
EXTENDS Integers, Sequences, FiniteSets, TLC

\* ---------------------------------------------------------------- bounds
\* Largest number of next() calls the caller makes on one cursor.
MaxNextCalls == 3
\* Largest number of rows the underlying SqlStorage cursor yields.
MaxRows == 2
\* Largest row value a SqlStorage cursor of the producer's own specification holds.
MaxRowVal == 2

\* ------------------------------------------------------ program constants
MAX_RETRIES == 1

\* ------------------------------------------------------------- variables
VARIABLES
    \* DORM.fetch: the SqlStorage cursor returned by this.sql.exec (this.cursor)
    sqlCursor,
    \* the ReadableStream source object's fields (start / pull)
    columnsSent, metaSent, cursorComplete, rowIterator,
    \* the ReadableStream controller: closed, and every frame enqueued so far
    streamClosed, emitted,
    \* number of pull() calls made, number of rowIterator.next() calls made
    pulls, iterCalls,
    \* the response body in flight: code units enqueued and not yet read
    wire,
    \* exec: the ClientSqlCursor it creates, the text buffer of its reader
    \* loop, and where that loop is ("none", "reading", "done", "failed")
    cursor, buffer, reader,
    \* every message handed to cursor._processStreamMessage, in order
    applied,
    \* the caller's toArray() call ("idle", "waiting", "resolved") and its result
    taState, taResult,
    \* the IteratorResults the caller's next() calls returned, in order
    nextLog,
    \* exec: where the call is ("call", "racing", "backoff", "done"), its
    \* locals retries and lastError, and whether it has returned the cursor
    pc, retries, lastError, handed,
    \* the requests exec has issued, in order: where each is in the transport,
    \* the executor's answer, and what exec made of the attempt
    req,
    \* the statements the store has been given (this.sql.exec), in order
    storeLog,
    \* the message of each failed attempt, in order
    failLog,
    \* createClient: whether a mirror endpoint (mirrorStub) and an execution
    \* context (ctx) were given
    config,
    \* how the mirror endpoint behaves: "ok", "fail" (every request fails)
    \* or "silent" (it never answers)
    mirrorMode,
    \* the requests sent to the primary and to the mirror endpoint, in order
    primary, mirror,
    \* the tasks handed to ctx.waitUntil, in order
    waitUntil,
    \* the caller's calls of the client's exec and the cursor each returned
    calls,
    \* the middleware serving one /query/raw request
    mw,
    \* the lines of a response body as the transport delivers it, frames and
    \* others, in order
    body,
    \* the RemoteSqlStorageCursor of the synchronous exec: its fields, and
    \* the rows its next() has returned so far
    rsc,
    \* the lazily initialising client: its flags initialized and
    \* mirrorInitialized, and its calls of exec in progress
    lazy

producerVars == <<sqlCursor, columnsSent, metaSent, cursorComplete, rowIterator,
                  streamClosed, emitted, pulls, iterCalls>>
readerVars == <<cursor, buffer, reader, applied>>
callerVars == <<taState, taResult, nextLog>>
execVars == <<pc, retries, lastError, handed, req, storeLog, failLog>>

clientVars == <<config, mirrorMode, primary, mirror, waitUntil, calls, mw>>
streamVars == <<producerVars, wire, readerVars, callerVars, execVars>>

otherVars == <<body, rsc, lazy>>

vars == <<streamVars, clientVars, otherVars>>

\* The middleware before a request has arrived.
MwIdle ==
    [pc |-> "idle", streaming |-> FALSE, sql |-> [sql |-> 0, kind |-> "none"],
     transaction |-> <<>>, skipMirror |-> FALSE, i |-> 0,
     results |-> <<>>, success |-> TRUE, failedAt |-> 0,
     response |-> [status |-> 0, result |-> <<>>, transaction |-> FALSE,
                   success |-> FALSE, error |-> ""]]

\* A RemoteSqlStorageCursor as its field initialisers leave it, with no
\* row returned.
NewRemoteCursor ==
    [buffer |-> <<>>, done |-> FALSE, pendingNextChunk |-> FALSE,
     columnNames |-> <<>>, rowsRead |-> 0, rowsWritten |-> 0,
     cached |-> FALSE, cachedResults |-> <<>>, returned |-> <<>>,
     failed |-> FALSE]

\* The lazily initialising client as createClient leaves it.
NewLazy == [initialized |-> FALSE, mirrorInitialized |-> FALSE, run |-> <<>>]

\* No body is being delivered, no synchronous exec and no lazily
\* initialising client is in use.
OtherIdle ==
    /\ body = <<>>
    /\ rsc = NewRemoteCursor
    /\ lazy = NewLazy

\* No client has been created: no endpoint has been sent anything.
ClientIdle ==
    /\ config = [mirror |-> FALSE, ctx |-> FALSE]
    /\ mirrorMode = "ok"
    /\ primary = <<>>
    /\ mirror = <<>>
    /\ waitUntil = <<>>
    /\ calls = <<>>
    /\ mw = MwIdle

\* ----------------------------------------------------------------- frames
\* StreamMessage { type, data?, error? }: an absent data is <<>>, an absent
\* error is the empty string.
NoData == <<>>
NoText == ""

ColumnsFrame(names) == [type |-> "columns", data |-> names, error |-> NoText]
RowFrame(row) == [type |-> "row", data |-> row, error |-> NoText]
MetaFrame(rr, rw) == [type |-> "meta", data |-> <<rr, rw>>, error |-> NoText]
ErrorFrame(msg) == [type |-> "error", data |-> NoData, error |-> msg]

IsTerminal(f) == f.type \in {"meta", "error"}

\* ------------------------------------------------------------ frame codec
\* Numbers that occur in a payload; ToString is JSON.stringify on a number.
MaxNum == 9
Numeral(n) == ToString(n)
IsNumeral(t) == \E n \in 0..MaxNum : Numeral(n) = t
ParseNumeral(t) == CHOOSE n \in 0..MaxNum : Numeral(n) = t

LF == "\n"
Blank == " "
Close == "}"
Open(type) == "{" \o type
FrameTypes == {"columns", "row", "meta", "error"}

\* JSON.stringify(frame) + "\n" as the producer writes it.
Encode(f) ==
    <<Open(f.type)>>
      \o (IF f.type = "error"
          THEN (IF f.error = NoText THEN <<>> ELSE <<f.error>>)
          ELSE [i \in 1..Len(f.data) |-> Numeral(f.data[i])])
      \o <<Close, LF>>

RECURSIVE EncodeAll(_)
EncodeAll(fs) == IF fs = <<>> THEN <<>> ELSE Encode(Head(fs)) \o EncodeAll(Tail(fs))

\* String.prototype.split("\n"): always at least one piece.
RECURSIVE Split(_)
Split(s) ==
    IF \A i \in 1..Len(s) : s[i] # LF
    THEN <<s>>
    ELSE LET k == CHOOSE i \in 1..Len(s) : s[i] = LF /\ \A j \in 1..(i - 1) : s[j] # LF
         IN  <<SubSeq(s, 1, k - 1)>> \o Split(SubSeq(s, k + 1, Len(s)))

\* String.prototype.trim(): white space (blank, line feed) off both ends.
IsSpace(t) == t \in {Blank, LF}
RECURSIVE TrimLeft(_)
TrimLeft(s) == IF s # <<>> /\ IsSpace(Head(s)) THEN TrimLeft(Tail(s)) ELSE s
RECURSIVE TrimRight(_)
TrimRight(s) ==
    IF s # <<>> /\ IsSpace(s[Len(s)]) THEN TrimRight(SubSeq(s, 1, Len(s) - 1)) ELSE s
Trim(s) == TrimRight(TrimLeft(s))

\* JSON.parse(line) followed by the member reads of _processStreamMessage:
\* Parses(line) is false where JSON.parse or a member read throws.
Payload(line) == SubSeq(Trim(line), 2, Len(Trim(line)) - 1)
Parses(line) ==
    LET t == Trim(line)
    IN  /\ Len(t) >= 2
        /\ \E type \in FrameTypes : t[1] = Open(type)
        /\ t[Len(t)] = Close
        /\ \A i \in 2..(Len(t) - 1) : ~IsSpace(t[i]) /\ t[i] # Close
        /\ (t[1] = Open("error") => Len(t) <= 3)
        /\ (t[1] # Open("error") => \A i \in 2..(Len(t) - 1) : IsNumeral(t[i]))
        /\ (t[1] = Open("meta") => Len(t) = 4)
Parse(line) ==
    LET t == Trim(line)
        type == CHOOSE ty \in FrameTypes : t[1] = Open(ty)
        p == Payload(line)
    IN  IF type = "error"
        THEN ErrorFrame(IF p = <<>> THEN NoText ELSE p[1])
        ELSE [type |-> type, data |-> [i \in 1..Len(p) |-> ParseNumeral(p[i])],
              error |-> NoText]

\* -------------------------------------------------------- ClientSqlCursor
null == "null"

NewCursor ==
    [columnNames |-> <<>>, rows |-> <<>>, rowsRead |-> 0, rowsWritten |-> 0,
     currentIndex |-> 0, initialized |-> FALSE, error |-> null,
     streamingComplete |-> FALSE]

\* mutant: _completeStreaming does nothing
CompleteStreaming_noop(c) == c

\* _completeStreaming: _resolveStreamingPromise is non-null exactly while
\* _streamingComplete is false, so the flag alone is kept.
CompleteStreaming(c) ==
    IF ~c.streamingComplete THEN [c EXCEPT !.streamingComplete = TRUE] ELSE c

\* mutant: a row message is pushed twice
ProcessStreamMessage_twice(c, message) ==
    IF message.type = "columns" THEN [c EXCEPT !.columnNames = message.data]
    ELSE IF message.type = "row"
    THEN [c EXCEPT !.rows = Append(Append(@, message.data), message.data)]
    ELSE IF message.type = "meta"
    THEN CompleteStreaming([c EXCEPT !.rowsRead = message.data[1],
                                     !.rowsWritten = message.data[2],
                                     !.initialized = TRUE])
    ELSE IF message.type = "error"
    THEN CompleteStreaming(
             [c EXCEPT !.error = IF message.error = NoText
                                 THEN "Unknown error" ELSE message.error])
    ELSE c

ProcessStreamMessage(c, message) ==
    IF message.type = "columns" THEN [c EXCEPT !.columnNames = message.data]
    ELSE IF message.type = "row" THEN [c EXCEPT !.rows = Append(@, message.data)]
    ELSE IF message.type = "meta"
    THEN CompleteStreaming([c EXCEPT !.rowsRead = message.data[1],
                                     !.rowsWritten = message.data[2],
                                     !.initialized = TRUE])
    ELSE IF message.type = "error"
    THEN CompleteStreaming(
             [c EXCEPT !.error = IF message.error = NoText
                                 THEN "Unknown error" ELSE message.error])
    ELSE c

\* mutant: waitForStreamingComplete does not wait
StreamingPromiseResolved_always(c) == TRUE

\* The promise waitForStreamingComplete returns is resolved.
StreamingPromiseResolved(c) == c.streamingComplete

Undefined == 0 - 1
\* The object results() / next() build for a row: one member per column name.
RowObject(names, row) ==
    [n \in {names[i] : i \in 1..Len(names)} |->
        LET i == CHOOSE k \in 1..Len(names) :
                    names[k] = n /\ \A j \in (k + 1)..Len(names) : names[j] # n
        IN  IF i <= Len(row) THEN row[i] ELSE Undefined]

Results(c) == [i \in 1..Len(c.rows) |-> RowObject(c.columnNames, c.rows[i])]

\* ------------------------------------------- exec: background reader loop
\* 1024 * 1024 code units in the source.  The model's frames are four or
\* five code units long, and the limit is scaled with them to two row
\* frames: as in the source, one frame is far below it and a run of
\* complete frames can exceed it.
MAX_BUFFER_SIZE == 8

\* The cursor together with the log of the messages applied to it.
Applying(st, message) ==
    [cursor |-> ProcessStreamMessage(st.cursor, message),
     applied |-> Append(st.applied, message)]

\* for (const line of lines): each non-blank line is parsed in its own try;
\* a line that does not parse is logged and skipped.
RECURSIVE ProcessLines_stop(_, _)
\* mutant: the first line that does not parse ends the loop
ProcessLines_stop(st, lines) ==
    IF lines = <<>> THEN st
    ELSE IF Trim(Head(lines)) = <<>> THEN ProcessLines_stop(st, Tail(lines))
    ELSE IF Parses(Head(lines))
    THEN ProcessLines_stop(Applying(st, Parse(Head(lines))), Tail(lines))
    ELSE st

RECURSIVE ProcessLines(_, _)
ProcessLines(st, lines) ==
    IF lines = <<>> THEN st
    ELSE IF Trim(Head(lines)) # <<>> /\ Parses(Head(lines))
    THEN ProcessLines(Applying(st, Parse(Head(lines))), Tail(lines))
    ELSE ProcessLines(st, Tail(lines))

\* The end-of-stream branch: one try around the whole loop, so the first
\* line that does not parse ends it.
RECURSIVE ProcessFinal(_, _)
ProcessFinal(st, lines) ==
    IF lines = <<>> THEN st
    ELSE IF Trim(Head(lines)) = <<>> THEN ProcessFinal(st, Tail(lines))
    ELSE IF Parses(Head(lines))
    THEN ProcessFinal(Applying(st, Parse(Head(lines))), Tail(lines))
    ELSE st

\* The catch of the reader loop.
\* mutant: the catch of the reader loop swallows the error
StreamProcessingError_swallow(st, message) == st

StreamProcessingError(st, message) ==
    LET st1 == Applying(st, ErrorFrame("Stream processing error: " \o message))
    IN  [st1 EXCEPT !.cursor = CompleteStreaming(st1.cursor)]

ReaderState == [cursor |-> cursor, applied |-> applied]

\* mutant: the buffer has no limit
BufferExceeded_never(b) == FALSE

\* Whether the text buffer is over its limit.
BufferExceeded(b) == Len(b) > MAX_BUFFER_SIZE

\* reader.read() yields a chunk: the next n code units of the body.
ReadChunk(n) ==
    /\ reader = "reading"
    /\ n \in 1..Len(wire)
    /\ wire' = SubSeq(wire, n + 1, Len(wire))
    /\ LET b == buffer \o SubSeq(wire, 1, n)
           lines == Split(b)
           st == IF BufferExceeded(b)
                 THEN StreamProcessingError(ReaderState,
                          "Buffer size exceeded maximum allowed size")
                 ELSE ProcessLines(ReaderState, SubSeq(lines, 1, Len(lines) - 1))
       IN  /\ buffer' = IF BufferExceeded(b) THEN b ELSE lines[Len(lines)]
           /\ reader' = IF BufferExceeded(b) THEN "failed" ELSE "reading"
           /\ cursor' = st.cursor
           /\ applied' = st.applied
    /\ UNCHANGED <<otherVars, clientVars, producerVars, callerVars, execVars>>

\* reader.read() yields done: the body is closed and fully read.
ReadDone ==
    /\ reader = "reading"
    /\ streamClosed /\ wire = <<>>
    /\ LET st == IF Trim(buffer) # <<>>
                 THEN ProcessFinal(ReaderState, Split(Trim(buffer)))
                 ELSE ReaderState
       IN  /\ cursor' = CompleteStreaming(st.cursor)
           /\ applied' = st.applied
    /\ reader' = "done"
    /\ UNCHANGED <<otherVars, clientVars, producerVars, wire, buffer, callerVars, execVars>>

\* reader.read() rejects: the transport broke while the body was being read.
ReadError ==
    /\ reader = "reading"
    /\ LET st == StreamProcessingError(ReaderState, "Network connection lost")
       IN  /\ cursor' = st.cursor
           /\ applied' = st.applied
    /\ reader' = "failed"
    /\ UNCHANGED <<otherVars, clientVars, producerVars, wire, buffer, callerVars, execVars>>

\* ------------------------------------------------------ the caller's side
\* toArray(): await waitForStreamingComplete() ...
ToArrayCall ==
    /\ handed
    /\ taState = "idle"
    /\ taState' = "waiting"
    /\ UNCHANGED <<otherVars, clientVars, producerVars, wire, readerVars, taResult, nextLog, execVars>>

\* ... and, once the promise is resolved, Array.from(this.results()).
ToArrayResume ==
    /\ taState = "waiting"
    /\ StreamingPromiseResolved(cursor)
    /\ taState' = "resolved"
    /\ taResult' = Results(cursor)
    /\ UNCHANGED <<otherVars, clientVars, producerVars, wire, readerVars, nextLog, execVars>>

\* mutant: next() does not advance _currentIndex
NextStep_noAdvance(c) ==
    IF c.currentIndex >= Len(c.rows)
    THEN [cursor |-> c, result |-> [done |-> TRUE, value |-> <<>>]]
    ELSE [cursor |-> c,
          result |-> [done |-> FALSE,
                      value |-> RowObject(c.columnNames, c.rows[c.currentIndex + 1])]]

\* next(): the cursor it leaves and the IteratorResult it returns (rows are
\* numbered from 1 here, so row _currentIndex of the code is row
\* currentIndex + 1).
NextStep(c) ==
    IF c.currentIndex >= Len(c.rows)
    THEN [cursor |-> c, result |-> [done |-> TRUE, value |-> <<>>]]
    ELSE [cursor |-> [c EXCEPT !.currentIndex = @ + 1],
          result |-> [done |-> FALSE,
                      value |-> RowObject(c.columnNames, c.rows[c.currentIndex + 1])]]

\* The caller calls cursor.next(); the log also keeps how many rows the
\* cursor held at the call.
NextCall ==
    /\ handed
    /\ Len(nextLog) < MaxNextCalls
    /\ LET r == NextStep(cursor)
       IN  /\ cursor' = r.cursor
           /\ nextLog' = Append(nextLog, [done |-> r.result.done,
                                          value |-> r.result.value,
                                          have |-> Len(cursor.rows)])
    /\ UNCHANGED <<otherVars, clientVars, producerVars, wire, buffer, reader, applied, taState, taResult,
                   execVars>>

\* ------------------------------------------------------- stream producer
\* rowIterator is null until the first pull after the columns frame.
NoIterator == [created |-> FALSE, pos |-> 0]

\* A SqlStorage cursor: its column names, the rows its raw() iterator
\* yields, its counters, and where it throws: failAt = k > 0 makes the k-th
\* call of next() throw, failMeta makes reading the counters throw.
SqlCursor(names, rows, failAt, failMeta) ==
    [columnNames |-> names, rows |-> rows,
     rowsRead |-> Len(rows), rowsWritten |-> 0,
     failAt |-> failAt, failMeta |-> failMeta, message |-> "SQLITE_ERROR"]

\* The source object's fields as start() leaves them.
StartState ==
    [columnsSent |-> FALSE, metaSent |-> FALSE, cursorComplete |-> FALSE,
     rowIterator |-> NoIterator]

\* The catch of pull(): the error frame is enqueued and the stream closed.
\* s is the source state the try block left, n the next() calls it made.
\* mutant: the catch enqueues the error frame and leaves the stream open
PullCatch_noClose(c, s, n) ==
    [s |-> s, out |-> <<ErrorFrame(c.message)>>, close |-> FALSE, nexts |-> n]

\* mutant: the catch closes the stream without an error frame
PullCatch_silent(c, s, n) ==
    [s |-> s, out |-> <<>>, close |-> TRUE, nexts |-> n]

PullCatch(c, s, n) ==
    [s |-> s, out |-> <<ErrorFrame(c.message)>>, close |-> TRUE, nexts |-> n]

\* One run of pull(controller) on source state s over SqlStorage cursor c:
\* the state it leaves, the frames it enqueues (in order), whether it closes
\* the stream, and how many times it called rowIterator.next().
\* mutant: after the columns frame one pull drains the iterator and sends meta
PullStep_drain(c, s) ==
    IF ~s.columnsSent
    THEN [s |-> [s EXCEPT !.columnsSent = TRUE],
          out |-> <<ColumnsFrame(c.columnNames)>>, close |-> FALSE, nexts |-> 0]
    ELSE [s |-> [s EXCEPT !.rowIterator = [created |-> TRUE, pos |-> Len(c.rows)],
                          !.cursorComplete = TRUE, !.metaSent = TRUE],
          out |-> [i \in 1..Len(c.rows) |-> RowFrame(c.rows[i])]
                    \o <<MetaFrame(c.rowsRead, c.rowsWritten)>>,
          close |-> TRUE, nexts |-> Len(c.rows) + 1]

\* mutant: the pull that finds the iterator exhausted returns without a
\* frame, and the meta frame is left to the next pull
PullStep_deferMeta(c, s) ==
    IF ~s.columnsSent
    THEN [s |-> [s EXCEPT !.columnsSent = TRUE],
          out |-> <<ColumnsFrame(c.columnNames)>>, close |-> FALSE, nexts |-> 0]
    ELSE
    LET it == [created |-> TRUE, pos |-> s.rowIterator.pos]
        s2 == [s EXCEPT !.rowIterator = it]
    IN  IF ~s2.cursorComplete /\ c.failAt = it.pos + 1
        THEN PullCatch(c, [s2 EXCEPT !.rowIterator.pos = it.pos + 1], 1)
        ELSE IF ~s2.cursorComplete /\ it.pos < Len(c.rows)
        THEN [s |-> [s2 EXCEPT !.rowIterator.pos = it.pos + 1],
              out |-> <<RowFrame(c.rows[it.pos + 1])>>, close |-> FALSE, nexts |-> 1]
        ELSE IF ~s2.cursorComplete
        THEN [s |-> [s2 EXCEPT !.cursorComplete = TRUE],
              out |-> <<>>, close |-> FALSE, nexts |-> 1]
        ELSE IF ~s2.metaSent
        THEN IF c.failMeta
             THEN PullCatch(c, s2, 0)
             ELSE [s |-> [s2 EXCEPT !.metaSent = TRUE],
                   out |-> <<MetaFrame(c.rowsRead, c.rowsWritten)>>,
                   close |-> TRUE, nexts |-> 0]
        ELSE [s |-> s2, out |-> <<>>, close |-> FALSE, nexts |-> 0]

PullStep(c, s) ==
    IF ~s.columnsSent
    THEN \* Step 1: the columns frame, then return
         [s |-> [s EXCEPT !.columnsSent = TRUE],
          out |-> <<ColumnsFrame(c.columnNames)>>, close |-> FALSE, nexts |-> 0]
    ELSE
    LET \* Step 2: create the row iterator if there is none yet
        it == [created |-> TRUE, pos |-> s.rowIterator.pos]
        s2 == [s EXCEPT !.rowIterator = it]
    IN  IF ~s2.cursorComplete /\ c.failAt = it.pos + 1
        THEN \* Step 3, next() throws
             PullCatch(c, [s2 EXCEPT !.rowIterator.pos = it.pos + 1], 1)
        ELSE IF ~s2.cursorComplete /\ it.pos < Len(c.rows)
        THEN \* Step 3, a row: enqueue it and return
             [s |-> [s2 EXCEPT !.rowIterator.pos = it.pos + 1],
              out |-> <<RowFrame(c.rows[it.pos + 1])>>, close |-> FALSE, nexts |-> 1]
        ELSE
        LET \* Step 3, done: mark the cursor complete and fall through to step 4
            s3 == IF ~s2.cursorComplete
                  THEN [s2 EXCEPT !.cursorComplete = TRUE] ELSE s2
            n3 == IF ~s2.cursorComplete THEN 1 ELSE 0
        IN  IF s3.cursorComplete /\ ~s3.metaSent
            THEN IF c.failMeta
                 THEN \* Step 4, reading the counters throws
                      PullCatch(c, s3, n3)
                 ELSE \* Step 4: the meta frame, then close
                      [s |-> [s3 EXCEPT !.metaSent = TRUE],
                       out |-> <<MetaFrame(c.rowsRead, c.rowsWritten)>>,
                       close |-> TRUE, nexts |-> n3]
            ELSE [s |-> s3, out |-> <<>>, close |-> FALSE, nexts |-> n3]

SourceState ==
    [columnsSent |-> columnsSent, metaSent |-> metaSent,
     cursorComplete |-> cursorComplete, rowIterator |-> rowIterator]

\* The streams runtime calls pull() while the stream is open.
Pull ==
    /\ ~streamClosed
    /\ LET r == PullStep(sqlCursor, SourceState)
       IN  /\ columnsSent' = r.s.columnsSent
           /\ metaSent' = r.s.metaSent
           /\ cursorComplete' = r.s.cursorComplete
           /\ rowIterator' = r.s.rowIterator
           /\ emitted' = emitted \o r.out
           /\ wire' = wire \o EncodeAll(r.out)
           /\ streamClosed' = r.close
           /\ iterCalls' = iterCalls + r.nexts
    /\ pulls' = pulls + 1
    /\ UNCHANGED <<otherVars, clientVars, sqlCursor, readerVars, callerVars, execVars>>

\* ------------------------------------------------ producer specification
RowSeqs == UNION {[1..n -> {<<v>> : v \in 1..MaxRowVal}] : n \in 0..MaxRows}

ColumnNames == <<1>>

InitProducer ==
    /\ ClientIdle
    /\ OtherIdle
    /\ \E rows \in RowSeqs, failAt \in 0..(MaxRows + 1), failMeta \in BOOLEAN :
          /\ failAt <= Len(rows) + 1
          /\ sqlCursor = SqlCursor(ColumnNames, rows, failAt, failMeta)
    /\ columnsSent = StartState.columnsSent
    /\ metaSent = StartState.metaSent
    /\ cursorComplete = StartState.cursorComplete
    /\ rowIterator = StartState.rowIterator
    /\ streamClosed = FALSE
    /\ emitted = <<>>
    /\ pulls = 0
    /\ iterCalls = 0
    /\ wire = <<>>
    /\ cursor = NewCursor
    /\ buffer = <<>>
    /\ reader = "none"
    /\ applied = <<>>
    /\ taState = "idle"
    /\ taResult = <<>>
    /\ nextLog = <<>>
    /\ pc = "done"
    /\ retries = 0
    /\ lastError = null
    /\ handed = TRUE
    /\ req = <<>>
    /\ storeLog = <<>>
    /\ failLog = <<>>

NextProducer == Pull

\* ------------------------------------------------ consumer specification
\* The reader loop of exec over a response body that carries any sequence
\* of at most MaxFrames frames, with or without the last line feed.
MaxFrames == 3

FrameSet ==
    {ColumnsFrame(ColumnNames), MetaFrame(MaxRows, 0), ErrorFrame("SQLITE_ERROR")}
      \cup {RowFrame(<<v>>) : v \in 1..MaxRowVal}

FrameSeqs == UNION {[1..n -> FrameSet] : n \in 0..MaxFrames}

WithoutLastLF(s) == IF s = <<>> THEN s ELSE SubSeq(s, 1, Len(s) - 1)

InitConsumer ==
    /\ ClientIdle
    /\ OtherIdle
    /\ sqlCursor = SqlCursor(ColumnNames, <<>>, 0, FALSE)
    /\ columnsSent = TRUE
    /\ metaSent = TRUE
    /\ cursorComplete = TRUE
    /\ rowIterator = NoIterator
    /\ streamClosed = TRUE
    /\ \E fs \in FrameSeqs :
          /\ emitted = fs
          /\ wire \in {EncodeAll(fs), WithoutLastLF(EncodeAll(fs))}
    /\ pulls = 0
    /\ iterCalls = 0
    /\ cursor = NewCursor
    /\ buffer = <<>>
    /\ reader = "reading"
    /\ applied = <<>>
    /\ taState = "idle"
    /\ taResult = <<>>
    /\ nextLog = <<>>
    /\ pc = "done"
    /\ retries = 0
    /\ lastError = null
    /\ handed = TRUE
    /\ req = <<>>
    /\ storeLog = <<>>
    /\ failLog = <<>>

NextConsumer ==
    \/ \E n \in 1..Len(wire) : ReadChunk(n)
    \/ ReadDone
    \/ ReadError
    \/ ToArrayCall
    \/ ToArrayResume

SpecConsumer == InitConsumer /\ [][NextConsumer]_vars

\* The same reader loop over a transport that delivers the whole body:
\* only the chunking varies.
NextFraming ==
    \/ \E n \in 1..Len(wire) : ReadChunk(n)
    \/ ReadDone

SpecFraming == InitConsumer /\ [][NextFraming]_vars

\* ------------------------------------ the reader loop over a garbled body
\* The reader loop of exec over a response body of at most MaxLines lines,
\* each a frame or a line that is not JSON: text that is no JSON value, or a
\* row or meta frame cut short.
MaxLines == 3

NoFrame == [type |-> "none", data |-> NoData, error |-> NoText]
NotJson == {<<"<html>">>, <<Open("row"), Numeral(1)>>, <<Open("meta"), Numeral(MaxRows)>>}

FrameLine(f) == [frame |-> f, text |-> SubSeq(Encode(f), 1, Len(Encode(f)) - 1)]
BodyLines ==
    {FrameLine(f) : f \in FrameSet} \cup {[frame |-> NoFrame, text |-> t] : t \in NotJson}
Bodies == UNION {[1..n -> BodyLines] : n \in 0..MaxLines}

\* The text of lines: each followed by a line feed.
RECURSIVE BodyText(_)
BodyText(lines) ==
    IF lines = <<>> THEN <<>>
    ELSE Head(lines).text \o <<LF>> \o BodyText(Tail(lines))

\* The frames among lines, in order.
FramesOf(lines) ==
    LET fl == SelectSeq(lines, LAMBDA l : l.frame # NoFrame)
    IN  [i \in 1..Len(fl) |-> fl[i].frame]

InitGarbled ==
    /\ ClientIdle
    /\ rsc = NewRemoteCursor
    /\ lazy = NewLazy
    /\ \E b \in Bodies, lf \in BOOLEAN :
          /\ body = [lines |-> b, lf |-> lf]
          /\ emitted = FramesOf(b)
          /\ wire = IF lf THEN BodyText(b) ELSE WithoutLastLF(BodyText(b))
    /\ sqlCursor = SqlCursor(ColumnNames, <<>>, 0, FALSE)
    /\ columnsSent = TRUE
    /\ metaSent = TRUE
    /\ cursorComplete = TRUE
    /\ rowIterator = NoIterator
    /\ streamClosed = TRUE
    /\ pulls = 0
    /\ iterCalls = 0
    /\ cursor = NewCursor
    /\ buffer = <<>>
    /\ reader = "reading"
    /\ applied = <<>>
    /\ taState = "idle"
    /\ taResult = <<>>
    /\ nextLog = <<>>
    /\ pc = "done"
    /\ retries = 0
    /\ lastError = null
    /\ handed = TRUE
    /\ req = <<>>
    /\ storeLog = <<>>
    /\ failLog = <<>>

SpecGarbled == InitGarbled /\ [][NextFraming]_vars

\* ------------------------------------------------------------------ exec
\* The rows the store returns for its e-th successful execution of the
\* statement (an insert returning the identifiers the store generates).
StoreRows(e) == [i \in 1..MaxRows |-> <<(e - 1) * MaxRows + i>>]

Executions == Len(SelectSeq(storeLog, LAMBDA x : x.ok))

NewRequest == [net |-> "inflight", resp |-> "none", seen |-> "pending",
               timedOut |-> FALSE, result |-> SqlCursor(ColumnNames, <<>>, 0, FALSE)]

\* mutant: the catch does not count the failed attempt
NextRetries_stuck(r) == r

\* retries++
NextRetries(r) == r + 1

\* mutant: the catch keeps the first error
CaughtError_first(prev, error) == IF prev = null THEN error ELSE prev

\* lastError = error
CaughtError(prev, error) == error

FailedAfter(message) ==
    "Failed after " \o ToString(MAX_RETRIES) \o " retries: " \o message

\* mutant: out of retries, the cursor is returned as it is
FinalizeFailed_noop(st, message) == st

\* Out of retries: the error message is applied to the cursor, and the
\* cursor is marked complete.
FinalizeFailed(st, message) ==
    LET st1 == Applying(st, ErrorFrame(FailedAfter(message)))
    IN  [st1 EXCEPT !.cursor = CompleteStreaming(st1.cursor)]

\* The head of the retry loop with r retries counted: the next request is
\* issued and exec awaits the race of its fetch and the timeout, or the
\* loop is left and the cursor returned.
LoopHead(r) ==
    IF r <= MAX_RETRIES
    THEN /\ req' = Append(req, NewRequest)
         /\ pc' = "racing"
         /\ handed' = handed
    ELSE /\ req' = req
         /\ pc' = "done"
         /\ handed' = TRUE

\* exec is called: the cursor is created and the first request issued.
ExecCall ==
    /\ pc = "call"
    /\ LoopHead(retries)
    /\ UNCHANGED <<otherVars, clientVars, producerVars, wire, readerVars, callerVars, retries, lastError,
                   storeLog, failLog>>

\* The catch of the retry loop for the current attempt, failed with message:
\* with retries left exec waits out the backoff, else it puts the error on
\* the cursor and returns it.
Catch(message) ==
    LET k == Len(req)
        st == IF NextRetries(retries) <= MAX_RETRIES
              THEN ReaderState
              ELSE FinalizeFailed(ReaderState, CaughtError(lastError, message))
    IN  /\ lastError' = CaughtError(lastError, message)
        /\ retries' = NextRetries(retries)
        /\ failLog' = Append(failLog, message)
        /\ pc' = IF NextRetries(retries) <= MAX_RETRIES THEN "backoff" ELSE "done"
        /\ handed' = (NextRetries(retries) > MAX_RETRIES)
        /\ cursor' = st.cursor
        /\ applied' = st.applied
        /\ UNCHANGED <<otherVars, clientVars, producerVars, wire, buffer, reader, callerVars, storeLog>>

\* The backoff timer fires: back to the head of the loop.
BackoffDone ==
    /\ pc = "backoff"
    /\ LoopHead(retries)
    /\ UNCHANGED <<otherVars, clientVars, producerVars, wire, readerVars, callerVars, retries, lastError,
                   storeLog, failLog>>

\* stub.fetch(req) rejects: the request or its response is lost.
FetchRejects ==
    /\ pc = "racing"
    /\ req[Len(req)].net \in {"inflight", "answered"}
    /\ req' = [req EXCEPT ![Len(req)].net = "lost", ![Len(req)].seen = "failed"]
    /\ Catch("Network connection lost")

\* The timeout promise rejects first.  Nothing is done to the fetch that
\* lost the race: its request stays where it is in the transport.
Timeout ==
    /\ pc = "racing"
    /\ req' = [req EXCEPT ![Len(req)].timedOut = TRUE, ![Len(req)].seen = "failed"]
    /\ Catch("Request timed out after 30000ms")

\* DORM.fetch handles request k: this.sql.exec runs the statement; if it
\* throws the answer is the 500 response of the outer catch, else a
\* response whose body is the stream over the SqlStorage cursor.
ExecutorHandle(k) ==
    /\ k \in 1..Len(req)
    /\ req[k].net = "inflight"
    /\ \E ok \in BOOLEAN, failAt \in 0..(MaxRows + 1), failMeta \in BOOLEAN :
          /\ ~ok => (failAt = 0 /\ ~failMeta)
          /\ storeLog' = Append(storeLog, [attempt |-> k, ok |-> ok])
          /\ req' = [req EXCEPT
                       ![k].net = "answered",
                       ![k].resp = IF ok THEN "ok" ELSE "notok",
                       ![k].result = IF ok
                                     THEN SqlCursor(ColumnNames,
                                                    StoreRows(Executions + 1),
                                                    failAt, failMeta)
                                     ELSE @]
    /\ UNCHANGED <<otherVars, clientVars, producerVars, wire, readerVars, callerVars, pc, retries,
                   lastError, handed, failLog>>

\* The fetch of the current attempt resolves first, with a streaming
\* response: the reader loop is started on its body and the cursor returned.
ResponseOk ==
    /\ pc = "racing"
    /\ req[Len(req)].net = "answered"
    /\ req[Len(req)].resp = "ok"
    /\ req' = [req EXCEPT ![Len(req)].net = "delivered", ![Len(req)].seen = "ok"]
    /\ sqlCursor' = req[Len(req)].result
    /\ columnsSent' = StartState.columnsSent
    /\ metaSent' = StartState.metaSent
    /\ cursorComplete' = StartState.cursorComplete
    /\ rowIterator' = StartState.rowIterator
    /\ streamClosed' = FALSE
    /\ emitted' = <<>>
    /\ wire' = <<>>
    /\ buffer' = <<>>
    /\ reader' = "reading"
    /\ pc' = "done"
    /\ handed' = TRUE
    /\ UNCHANGED <<otherVars, clientVars, pulls, iterCalls, cursor, applied, callerVars, retries, lastError,
                   storeLog, failLog>>

\* The fetch of the current attempt resolves first, with a response that is
\* not ok: exec throws, and its catch takes over.
ResponseNotOk ==
    /\ pc = "racing"
    /\ req[Len(req)].net = "answered"
    /\ req[Len(req)].resp = "notok"
    /\ req' = [req EXCEPT ![Len(req)].net = "delivered", ![Len(req)].seen = "failed"]
    /\ Catch("Stream execution error: SQLITE_ERROR")

InitExec ==
    /\ ClientIdle
    /\ OtherIdle
    /\ sqlCursor = SqlCursor(ColumnNames, <<>>, 0, FALSE)
    /\ columnsSent = TRUE
    /\ metaSent = TRUE
    /\ cursorComplete = TRUE
    /\ rowIterator = NoIterator
    /\ streamClosed = TRUE
    /\ emitted = <<>>
    /\ pulls = 0
    /\ iterCalls = 0
    /\ wire = <<>>
    /\ cursor = NewCursor
    /\ buffer = <<>>
    /\ reader = "none"
    /\ applied = <<>>
    /\ taState = "idle"
    /\ taResult = <<>>
    /\ nextLog = <<>>
    /\ pc = "call"
    /\ retries = 0
    /\ lastError = null
    /\ handed = FALSE
    /\ req = <<>>
    /\ storeLog = <<>>
    /\ failLog = <<>>

NextExec ==
    \/ ExecCall
    \/ BackoffDone
    \/ FetchRejects
    \/ Timeout
    \/ \E k \in 1..Len(req) : ExecutorHandle(k)
    \/ ResponseOk
    \/ ResponseNotOk
    \/ Pull
    \/ \E n \in 1..Len(wire) : ReadChunk(n)
    \/ ReadDone
    \/ ReadError
    \/ NextCall

SpecExec == InitExec /\ [][NextExec]_vars

\* exec with what its own scheduling guarantees: the call starts, a timer
\* that has been set fires (the timeout of the race, unless the race is
\* settled first; the backoff).  Nothing is guaranteed of the transport:
\* requests, responses and chunks of a body may stay in it for ever.
SpecExecFair ==
    /\ SpecExec
    /\ WF_vars(ExecCall)
    /\ WF_vars(BackoffDone)
    /\ WF_vars(Timeout)

\* ------------------------------------------- the client of createClient
\* Largest number of calls of the client's exec one caller makes.
MaxCalls == 2
\* Largest number of statements in the transaction of one request.
MaxBatch == 3

\* A statement ({sql, params}) and what the store makes of it: "ok" (it
\* executes) or "fail" (the store rejects it); an entry of a transaction
\* may also be "invalid" (it has no sql).
Statement(id, kind) == [sql |-> id, kind |-> kind]

\* The result of draining the cursor of an executed statement.
ResultRecord(st) == [columns |-> ColumnNames, rows |-> <<<<st.sql>>>>, meta |-> <<1, 0>>]

\* exec(stub, migrations, sql, ...params): the request is issued and the
\* cursor returned at once; task is the waitUntil task that issued it (0
\* for none), call the call of the client's exec it serves (0 for none).
RemoteExec(requests, st, task, call) ==
    Append(requests, [st |-> st, state |-> "sent", task |-> task, call |-> call])

\* What draining the cursor of a request yields once the endpoint has
\* executed it: the statement's result, or an exception.
Drained(r) == r.state = "ok"
DrainThrows(r) == r.state = "failed"

ClientState == [primary |-> primary, mirror |-> mirror, waitUntil |-> waitUntil]

\* A task is created and started: it runs up to its first await, which is
\* on the cursor of its first statement on the mirror endpoint.
StartTask(c, kind, sqls) ==
    LET t == Len(c.waitUntil) + 1
    IN  [c EXCEPT !.mirror = RemoteExec(@, sqls[1], t, 0),
                  !.waitUntil = Append(@, [kind |-> kind, sqls |-> sqls, pos |-> 1,
                                           state |-> "running"])]

\* mutant: the mirror is sent the statement only when no ctx is given
ExecWithMirroring_swapped(c, st, call) ==
    LET c1 == [c EXCEPT !.primary = RemoteExec(@, st, 0, call)]
    IN  IF config.mirror /\ ~config.ctx THEN StartTask(c1, "exec", <<st>>) ELSE c1

\* execWithMirroring(sql, ...params): the primary request, and with a
\* mirror stub and a ctx the mirror task, handed to ctx.waitUntil.
ExecWithMirroring(c, st, call) ==
    LET c1 == [c EXCEPT !.primary = RemoteExec(@, st, 0, call)]
    IN  IF config.mirror /\ config.ctx THEN StartTask(c1, "exec", <<st>>) ELSE c1

\* The cursor a call of the client's exec holds, as populated so far.
OpenCursor == [complete |-> FALSE, rows |-> <<>>, error |-> null]
CursorOf(r) ==
    IF r.state = "sent" THEN OpenCursor
    ELSE IF r.state = "ok"
    THEN [complete |-> TRUE, rows |-> ResultRecord(r.st).rows, error |-> null]
    ELSE [complete |-> TRUE, rows |-> <<>>, error |-> "SQLITE_ERROR"]

\* The caller calls the client's exec: the cursor is returned in the call.
ClientExec(kind) ==
    /\ Len(calls) < MaxCalls
    /\ LET call == Len(calls) + 1
           st == Statement(call, kind)
           c == ExecWithMirroring(ClientState, st, call)
       IN  /\ primary' = c.primary
           /\ mirror' = c.mirror
           /\ waitUntil' = c.waitUntil
           /\ calls' = Append(calls, [st |-> st, req |-> Len(c.primary),
                                      returned |-> TRUE, cursor |-> OpenCursor])
    /\ UNCHANGED <<otherVars, streamVars, config, mirrorMode, mw>>

\* The primary endpoint executes request k and its stream is read to the
\* end: the cursor of the call it serves is populated.
PrimaryExecute(k) ==
    /\ k \in 1..Len(primary)
    /\ primary[k].state = "sent"
    /\ LET r == [primary[k] EXCEPT !.state = IF primary[k].st.kind = "ok"
                                                    THEN "ok" ELSE "failed"]
       IN  /\ primary' = [primary EXCEPT ![k] = r]
           /\ calls' = IF r.call = 0 THEN calls
                       ELSE [calls EXCEPT ![r.call].cursor = CursorOf(r)]
    /\ UNCHANGED <<otherVars, streamVars, config, mirrorMode, mirror, waitUntil, mw>>

\* mutant: the mirror task has no catch
MirrorCatch_rethrow(task) == [task EXCEPT !.state = "raised"]

\* catch (error) { console.error(...) } of a mirror task.
MirrorCatch(task) == [task EXCEPT !.state = "caught"]

\* The mirror endpoint answers request k and the task that awaits it goes
\* on: an exception ends it in its catch, else it goes to its next
\* statement, or ends.
MirrorAnswer(k) ==
    /\ mirrorMode # "silent"
    /\ k \in 1..Len(mirror)
    /\ mirror[k].state = "sent"
    /\ LET r == [mirror[k] EXCEPT
                    !.state = IF mirrorMode = "ok" /\ mirror[k].st.kind = "ok"
                              THEN "ok" ELSE "failed"]
           t == r.task
           task == waitUntil[t]
           m1 == [mirror EXCEPT ![k] = r]
       IN  IF DrainThrows(r)
           THEN /\ mirror' = m1
                /\ waitUntil' = [waitUntil EXCEPT ![t] = MirrorCatch(task)]
           ELSE IF task.pos < Len(task.sqls)
           THEN /\ mirror' = RemoteExec(m1, task.sqls[task.pos + 1], t, 0)
                /\ waitUntil' = [waitUntil EXCEPT ![t].pos = @ + 1]
           ELSE /\ mirror' = m1
                /\ waitUntil' = [waitUntil EXCEPT ![t].state = "done"]
    /\ UNCHANGED <<otherVars, streamVars, config, mirrorMode, primary, calls, mw>>

\* No statement is being streamed.
StreamIdle ==
    /\ sqlCursor = SqlCursor(ColumnNames, <<>>, 0, FALSE)
    /\ columnsSent = TRUE
    /\ metaSent = TRUE
    /\ cursorComplete = TRUE
    /\ rowIterator = NoIterator
    /\ streamClosed = TRUE
    /\ emitted = <<>>
    /\ pulls = 0
    /\ iterCalls = 0
    /\ wire = <<>>
    /\ cursor = NewCursor
    /\ buffer = <<>>
    /\ reader = "none"
    /\ applied = <<>>
    /\ taState = "idle"
    /\ taResult = <<>>
    /\ nextLog = <<>>
    /\ pc = "done"
    /\ retries = 0
    /\ lastError = null
    /\ handed = TRUE
    /\ req = <<>>
    /\ storeLog = <<>>
    /\ failLog = <<>>

\* createClient(context): with or without mirrorName, with or without ctx.
InitClient ==
    /\ StreamIdle
    /\ OtherIdle
    /\ config \in [mirror : BOOLEAN, ctx : BOOLEAN]
    /\ mirrorMode \in {"ok", "fail", "silent"}
    /\ primary = <<>>
    /\ mirror = <<>>
    /\ waitUntil = <<>>
    /\ calls = <<>>
    /\ mw = MwIdle

NextMirror ==
    \/ \E kind \in {"ok", "fail"} : ClientExec(kind)
    \/ \E k \in 1..Len(primary) : PrimaryExecute(k)
    \/ \E k \in 1..Len(mirror) : MirrorAnswer(k)

SpecMirror == InitClient /\ [][NextMirror]_vars

\* --------------------------------------------- middleware: transactions
\* The entries a transaction may hold, and the transactions of a request.
Entries(n) == [1..n -> {"ok", "fail", "invalid"}]
Transactions ==
    UNION {{[i \in 1..n |-> Statement(i, e[i])] : e \in Entries(n)} : n \in 0..MaxBatch}

NoResponse == MwIdle.response

\* mutant: the loop does not wait for the cursor to be drained
AwaitRaw_early(r) == TRUE

\* await cursor.raw() resumes the loop once the cursor is drained.
AwaitRaw(r) == Drained(r)

\* mutant: the record is put in front of the results
PushResult_front(results, st) == <<ResultRecord(st)>> \o results

\* results.push({columns, rows, meta})
PushResult(results, st) == Append(results, ResultRecord(st))

RECURSIVE MwLoop(_, _)

\* mutant: the catch goes on with the next statement
MwCatch_continue(c, m, message) ==
    MwLoop(c, [m EXCEPT !.success = FALSE, !.failedAt = m.i, !.i = @ + 1])

\* The catch of the transaction loop, which throws the error again, and the
\* catch around the whole request, which answers it with status 500.
MwCatch(c, m, message) ==
    [c |-> c,
     m |-> [m EXCEPT !.success = FALSE, !.failedAt = m.i, !.pc = "responded",
                     !.response = [status |-> 500, result |-> <<>>,
                                   transaction |-> FALSE, success |-> FALSE,
                                   error |-> message]]]

\* After the loop: the transaction is replayed on the mirror by a task of
\* its own, and the response is made.
MwAfterLoop(c, m) ==
    [c |-> IF ~m.skipMirror /\ config.mirror /\ config.ctx
           THEN StartTask(c, "replay", m.transaction) ELSE c,
     m |-> [m EXCEPT !.pc = "responded",
                     !.response = [status |-> 200, result |-> m.results,
                                   transaction |-> TRUE, success |-> m.success,
                                   error |-> ""]]]

\* The transaction loop from statement m.i up to its next await, or to the
\* response.
MwLoop(c, m) ==
    IF m.i > Len(m.transaction) THEN MwAfterLoop(c, m)
    ELSE IF m.transaction[m.i].kind = "invalid"
    THEN MwCatch(c, m, "Invalid transaction statement format")
    ELSE [c |-> IF m.skipMirror
                THEN [c EXCEPT !.primary = RemoteExec(@, m.transaction[m.i], 0, 0)]
                ELSE ExecWithMirroring(c, m.transaction[m.i], 0),
          m |-> [m EXCEPT !.pc = "await"]]

\* The middleware's state and the client's after a run r of the middleware.
MwLeaves(r) ==
    /\ mw' = r.m
    /\ primary' = r.c.primary
    /\ mirror' = r.c.mirror
    /\ waitUntil' = r.c.waitUntil
    /\ UNCHANGED <<otherVars, streamVars, config, mirrorMode, calls>>

\* A POST /query/raw with a transaction arrives: an empty transaction is
\* answered with status 400, else the loop starts.
MwRequest ==
    /\ mw.pc = "idle"
    /\ \E tx \in Transactions, skip \in BOOLEAN :
          LET m == [mw EXCEPT !.transaction = tx, !.skipMirror = skip, !.i = 1]
          IN  IF tx = <<>>
              THEN MwLeaves([c |-> ClientState,
                             m |-> [m EXCEPT !.pc = "responded",
                                             !.response = [NoResponse EXCEPT
                                                 !.status = 400,
                                                 !.error = "Invalid transaction format or empty transaction"]]])
              ELSE MwLeaves(MwLoop(ClientState, m))

\* The request the loop is waiting on: the last one sent to the primary.
Awaited == primary[Len(primary)]

\* The cursor of the current statement is drained: its record is pushed and
\* the loop goes on.
MwRawResolves ==
    /\ mw.pc = "await"
    /\ AwaitRaw(Awaited)
    /\ MwLeaves(MwLoop(ClientState,
                       [mw EXCEPT !.results = PushResult(@, mw.transaction[mw.i]),
                                  !.i = @ + 1]))

\* Draining the cursor of the current statement throws.
MwRawRejects ==
    /\ mw.pc = "await"
    /\ DrainThrows(Awaited)
    /\ MwLeaves(MwCatch(ClientState, mw, "SQLITE_ERROR"))

NextBatch ==
    \/ MwRequest
    \/ MwRawResolves
    \/ MwRawRejects
    \/ \E k \in 1..Len(primary) : PrimaryExecute(k)
    \/ \E k \in 1..Len(mirror) : MirrorAnswer(k)

SpecBatch == InitClient /\ [][NextBatch]_vars

\* ------------------------------- middleware: single and streamed queries
\* mutant: the single query goes through execWithMirroring whatever
\* skipMirror says
MwSingleExec_mirrors(c, st, skip) == ExecWithMirroring(c, st, 0)

\* data.skipMirror ? exec(stub, ...) : execWithMirroring(...)
MwSingleExec(c, st, skip) ==
    IF skip THEN [c EXCEPT !.primary = RemoteExec(@, st, 0, 0)]
    ELSE ExecWithMirroring(c, st, 0)

\* The mirror task of a streamed query.
MwStreamMirror(c, m) ==
    IF ~m.skipMirror /\ config.mirror /\ config.ctx
    THEN StartTask(c, "stream", <<m.sql>>) ELSE c

\* A response with a status and an error message.
ErrorResponse(status, message) ==
    [NoResponse EXCEPT !.status = status, !.error = message]

\* A POST /query/raw with sql arrives, asking for JSON or for a stream: the
\* statement is sent to the primary, by exec or by forwarding the request.
MwQueryRequest ==
    /\ mw.pc = "idle"
    /\ \E kind \in {"ok", "fail"}, skip \in BOOLEAN, streaming \in BOOLEAN :
          LET st == Statement(1, kind)
              m == [mw EXCEPT !.sql = st, !.skipMirror = skip,
                              !.streaming = streaming]
          IN  IF streaming
              THEN MwLeaves([c |-> [ClientState EXCEPT
                                       !.primary = RemoteExec(@, st, 0, 0)],
                             m |-> [m EXCEPT !.pc = "awaitFetch"]])
              ELSE MwLeaves([c |-> MwSingleExec(ClientState, st, skip),
                             m |-> [m EXCEPT !.pc = "awaitSingle"]])

\* A POST /query/raw the middleware answers with status 400: a stream is
\* asked for with a transaction or without sql, or JSON with neither sql
\* nor a transaction.
MwBadRequest ==
    /\ mw.pc = "idle"
    /\ \E skip \in BOOLEAN, streaming \in BOOLEAN, tx \in Transactions :
          /\ streaming \/ tx = <<>>
          /\ LET m == [mw EXCEPT !.skipMirror = skip, !.streaming = streaming,
                                 !.transaction = tx, !.pc = "responded"]
                 message == IF streaming /\ tx # <<>>
                            THEN "Transactions are not supported with streaming responses"
                            ELSE IF streaming THEN "Missing SQL query"
                            ELSE "Missing SQL query or transaction"
             IN  MwLeaves([c |-> ClientState,
                           m |-> [m EXCEPT !.response = ErrorResponse(400, message)]])

\* The cursor of the single query is drained: the response holds its result.
MwSingleResolves ==
    /\ mw.pc = "awaitSingle"
    /\ AwaitRaw(Awaited)
    /\ MwLeaves([c |-> ClientState,
                 m |-> [mw EXCEPT !.pc = "responded",
                                  !.response = [NoResponse EXCEPT
                                      !.status = 200,
                                      !.result = <<ResultRecord(mw.sql)>>]]])

\* Draining the cursor of the single query throws: the catch around the
\* request answers with status 500.
MwSingleRejects ==
    /\ mw.pc = "awaitSingle"
    /\ DrainThrows(Awaited)
    /\ MwLeaves([c |-> ClientState,
                 m |-> [mw EXCEPT !.pc = "responded",
                                  !.response = ErrorResponse(500, "SQLITE_ERROR")]])

\* The primary has answered the forwarded request: the mirror task is
\* started and the body of the answer is returned as the response.
MwStreamAnswered ==
    /\ mw.pc = "awaitFetch"
    /\ Awaited.state # "sent"
    /\ MwLeaves([c |-> MwStreamMirror(ClientState, mw),
                 m |-> [mw EXCEPT !.pc = "responded",
                                  !.response = [NoResponse EXCEPT
                                      !.status = 200,
                                      !.result = IF Drained(Awaited)
                                                 THEN <<ResultRecord(mw.sql)>>
                                                 ELSE <<>>,
                                      !.error = IF Drained(Awaited) THEN ""
                                                ELSE "SQLITE_ERROR"]]])

NextRaw ==
    \/ MwQueryRequest
    \/ MwBadRequest
    \/ MwSingleResolves
    \/ MwSingleRejects
    \/ MwStreamAnswered
    \/ MwRequest
    \/ MwRawResolves
    \/ MwRawRejects
    \/ \E k \in 1..Len(primary) : PrimaryExecute(k)
    \/ \E k \in 1..Len(mirror) : MirrorAnswer(k)

SpecRaw == InitClient /\ [][NextRaw]_vars

\* ---------------------- the synchronous exec and RemoteSqlStorageCursor
\* The lines of this body are {metadata: {columnNames}}, {row},
\* {metadata: {rowsRead, rowsWritten}} and {error}: they are modelled by the
\* columns, row, meta and error frames and their code units.

\* One write of handleExecRequest's task for statement st over SqlStorage
\* cursor c, s being how far the task is: the state it leaves, the line it
\* writes, and whether it closes the writer (finally) after it.
HandlerStep(st, c, s) ==
    IF st.kind = "fail"
    THEN \* this.storage.sql.exec throws
         [s |-> s, out |-> <<ErrorFrame(c.message)>>, close |-> TRUE]
    ELSE IF ~s.columnsSent
    THEN [s |-> [s EXCEPT !.columnsSent = TRUE],
          out |-> <<ColumnsFrame(c.columnNames)>>, close |-> FALSE]
    ELSE IF c.failAt = s.rowIterator.pos + 1
    THEN \* the iteration throws
         [s |-> s, out |-> <<ErrorFrame(c.message)>>, close |-> TRUE]
    ELSE IF s.rowIterator.pos < Len(c.rows)
    THEN [s |-> [s EXCEPT !.rowIterator = [created |-> TRUE, pos |-> @.pos + 1]],
          out |-> <<RowFrame(c.rows[s.rowIterator.pos + 1])>>, close |-> FALSE]
    ELSE IF c.failMeta
    THEN [s |-> s, out |-> <<ErrorFrame(c.message)>>, close |-> TRUE]
    ELSE [s |-> [s EXCEPT !.metaSent = TRUE],
          out |-> <<MetaFrame(c.rowsRead, c.rowsWritten)>>, close |-> TRUE]

\* processMetadata(metadata)
ProcessMetadata(c, f) ==
    IF f.type = "columns" THEN [c EXCEPT !.columnNames = f.data]
    ELSE [c EXCEPT !.rowsWritten = f.data[2]]

\* for (const line of lines) of readNextChunk: st holds the cursor and the
\* local results.  A line with neither row nor metadata, an {error} line
\* among them, is passed over.
RECURSIVE ChunkLines(_, _)
ChunkLines(st, lines) ==
    IF lines = <<>> THEN st
    ELSE IF Trim(Head(lines)) = <<>> \/ ~Parses(Head(lines))
    THEN ChunkLines(st, Tail(lines))
    ELSE LET f == Parse(Head(lines))
         IN  IF f.type = "row"
             THEN ChunkLines([c |-> [st.c EXCEPT !.rowsRead = @ + 1],
                              results |-> Append(st.results, f.data)],
                             Tail(lines))
             ELSE IF f.type \in {"columns", "meta"}
             THEN ChunkLines([st EXCEPT !.c = ProcessMetadata(st.c, f)], Tail(lines))
             ELSE ChunkLines(st, Tail(lines))

\* What readNextChunk makes of a chunk: the cursor it leaves and the rows
\* it has parsed into results.
ReadNextChunk(c, chunk) ==
    LET lines == Split(c.buffer \o chunk)
    IN  ChunkLines([c |-> [c EXCEPT !.buffer = lines[Len(lines)]], results |-> <<>>],
                   SubSeq(lines, 1, Len(lines) - 1))

\* return results[0]: the row next() returns for the chunk.
ChunkResult(results) == results[1]

\* The variables the synchronous exec leaves alone.
remoteRest == <<pulls, iterCalls, cursorComplete, readerVars, nextLog, execVars,
                config, mirrorMode, primary, mirror, waitUntil, calls, body, lazy>>

\* A POST /query/raw with sql arrives at the middleware, which calls exec
\* and awaits toArray() on the cursor it returns; the request reaches
\* handleExecRequest, which answers with the stream it is about to write.
RemoteRequest ==
    /\ mw.pc = "idle"
    /\ \E kind \in {"ok", "fail"}, rows \in RowSeqs, failAt \in 0..(MaxRows + 1),
          failMeta \in BOOLEAN :
          /\ failAt <= Len(rows) + 1
          /\ kind = "fail" => (rows = <<>> /\ failAt = 0 /\ ~failMeta)
          /\ sqlCursor' = SqlCursor(ColumnNames, rows, failAt, failMeta)
          /\ mw' = [mw EXCEPT !.pc = "awaitSingle", !.sql = Statement(1, kind)]
    /\ columnsSent' = StartState.columnsSent
    /\ metaSent' = StartState.metaSent
    /\ rowIterator' = StartState.rowIterator
    /\ streamClosed' = FALSE
    /\ emitted' = <<>>
    /\ wire' = <<>>
    /\ rsc' = [NewRemoteCursor EXCEPT !.pendingNextChunk = TRUE]
    /\ taState' = "waiting"
    /\ taResult' = <<>>
    /\ UNCHANGED remoteRest

\* handleExecRequest's task writes its next line.
HandlerWrite ==
    /\ mw.pc = "awaitSingle"
    /\ ~streamClosed
    /\ LET r == HandlerStep(mw.sql, sqlCursor,
                            [columnsSent |-> columnsSent, metaSent |-> metaSent,
                             rowIterator |-> rowIterator])
       IN  /\ columnsSent' = r.s.columnsSent
           /\ metaSent' = r.s.metaSent
           /\ rowIterator' = r.s.rowIterator
           /\ emitted' = emitted \o r.out
           /\ wire' = wire \o EncodeAll(r.out)
           /\ streamClosed' = r.close
    /\ UNCHANGED <<sqlCursor, rsc, taState, taResult, mw, remoteRest>>

\* this.reader.read() yields a chunk, the next n code units of the body.
\* With rows in it, the pending next() resolves with one of them and
\* toArray pushes it and calls next() again; else readNextChunk reads on.
RemoteReadChunk(n) ==
    /\ taState = "waiting"
    /\ rsc.pendingNextChunk /\ ~rsc.done
    /\ n \in 1..Len(wire)
    /\ wire' = SubSeq(wire, n + 1, Len(wire))
    /\ LET r == ReadNextChunk(rsc, SubSeq(wire, 1, n))
       IN  rsc' = IF r.results # <<>>
                  THEN [r.c EXCEPT !.returned = Append(@, ChunkResult(r.results))]
                  ELSE r.c
    /\ UNCHANGED <<producerVars, taState, taResult, mw, readerVars, nextLog, execVars,
                   config, mirrorMode, primary, mirror, waitUntil, calls, body, lazy>>

\* this.reader.read() yields done.  A row left in the buffer is returned by
\* the pending next(), and the next() after it finds no pending chunk and
\* throws; else next() resolves done and toArray resolves with its rows.
RemoteReadDone ==
    /\ taState = "waiting"
    /\ rsc.pendingNextChunk /\ ~rsc.done
    /\ streamClosed /\ wire = <<>>
    /\ LET last == Trim(rsc.buffer)
           f == IF last # <<>> /\ Parses(last) THEN Parse(last) ELSE NoFrame
           c == [rsc EXCEPT !.done = TRUE]
       IN  IF f.type = "row"
           THEN /\ rsc' = [c EXCEPT !.rowsRead = @ + 1,
                                    !.returned = Append(@, f.data),
                                    !.failed = TRUE]
                /\ taState' = "rejected"
                /\ taResult' = taResult
           ELSE /\ rsc' = [(IF f.type \in {"columns", "meta"}
                            THEN ProcessMetadata(c, f) ELSE c)
                             EXCEPT !.cached = TRUE, !.cachedResults = c.returned]
                /\ taState' = "resolved"
                /\ taResult' = c.returned
    /\ UNCHANGED <<producerVars, wire, mw, readerVars, nextLog, execVars,
                   config, mirrorMode, primary, mirror, waitUntil, calls, body, lazy>>

\* await cursor.toArray() has settled: the middleware answers with the
\* result, or from its catch.
RemoteRespond ==
    /\ mw.pc = "awaitSingle"
    /\ taState \in {"resolved", "rejected"}
    /\ mw' = [mw EXCEPT
                !.pc = "responded",
                !.response =
                    IF taState = "resolved"
                    THEN [NoResponse EXCEPT
                            !.status = 200,
                            !.result = <<[columns |-> rsc.columnNames,
                                          rows |-> taResult,
                                          meta |-> <<rsc.rowsRead, rsc.rowsWritten>>]>>]
                    ELSE ErrorResponse(500, "TypeError")]
    /\ UNCHANGED <<producerVars, wire, rsc, taState, taResult, remoteRest>>

InitRemote ==
    /\ StreamIdle
    /\ OtherIdle
    /\ config = [mirror |-> FALSE, ctx |-> FALSE]
    /\ mirrorMode = "ok"
    /\ primary = <<>>
    /\ mirror = <<>>
    /\ waitUntil = <<>>
    /\ calls = <<>>
    /\ mw = MwIdle

NextRemote ==
    \/ RemoteRequest
    \/ HandlerWrite
    \/ \E n \in 1..Len(wire) : RemoteReadChunk(n)
    \/ RemoteReadDone
    \/ RemoteRespond

SpecRemote == InitRemote /\ [][NextRemote]_vars

\* --------------------------------------- the lazily initialising client
\* The statements initializeStorage executes, one after the other: the
\* schema_info table, the schema statement of dbConfig, the timestamp.
InitStatements ==
    <<Statement(0 - 1, "ok"), Statement(0 - 2, "ok"), Statement(0 - 3, "ok")>>
IsInitStatement(st) == st.sql < 0

LazyState ==
    [lazy |-> lazy, primary |-> primary, mirror |-> mirror, waitUntil |-> waitUntil]

\* Call c with mirrorInitialized true: mirrorPromise is defined, and the
\* function itself, never called, is wrapped in a resolved promise, which
\* is handed to ctx.waitUntil or given a catch; the cursor is returned.
LazyHandOff(s, c) ==
    [s EXCEPT !.waitUntil = IF config.ctx
                            THEN Append(@, [kind |-> "function",
                                            sqls |-> <<s.lazy.run[c].st>>,
                                            pos |-> 0, state |-> "done"])
                            ELSE @,
              !.lazy.run[c].pc = "returned",
              !.lazy.run[c].handedOff = TRUE]

\* Call c from "Execute on mirror if configured" to its next await.
LazyMirrorPart(s, c) ==
    IF ~config.mirror THEN [s EXCEPT !.lazy.run[c].pc = "returned"]
    ELSE IF ~s.lazy.mirrorInitialized
    THEN [s EXCEPT !.mirror = RemoteExec(@, InitStatements[1], 0, c),
                   !.lazy.run[c].pc = "initMirror",
                   !.lazy.run[c].pos = 1]
    ELSE LazyHandOff(s, c)

\* Call c from "Execute query on main stub" to its next await.
LazyExecPrimary(s, c) ==
    LazyMirrorPart([s EXCEPT !.primary = RemoteExec(@, s.lazy.run[c].st, 0, c)], c)

\* Call c from its start to its first await.
LazyStart(s, c) ==
    IF ~s.lazy.initialized
    THEN [s EXCEPT !.primary = RemoteExec(@, InitStatements[1], 0, c),
                   !.lazy.run[c].pc = "initPrimary",
                   !.lazy.run[c].pos = 1]
    ELSE LazyExecPrimary(s, c)

LazyLeaves(s) ==
    /\ lazy' = s.lazy
    /\ primary' = s.primary
    /\ mirror' = s.mirror
    /\ waitUntil' = s.waitUntil
    /\ UNCHANGED <<streamVars, config, mirrorMode, calls, mw, body, rsc>>

\* The caller calls the client's exec.
LazyExec(kind) ==
    /\ Len(lazy.run) < MaxCalls
    /\ LET c == Len(lazy.run) + 1
           s == [LazyState EXCEPT
                    !.lazy.run = Append(@, [st |-> Statement(c, kind), pc |-> "start",
                                            pos |-> 0, handedOff |-> FALSE])]
       IN  LazyLeaves(LazyStart(s, c))

\* The primary endpoint answers request k, a statement of initializeStorage
\* with or without an error (ok).  A call awaiting it inside
\* initializeStorage goes on: on an error initializeStorage returns false,
\* which is assigned to initialized, and the call throws; else to the next
\* statement, or, initializeStorage having returned true, on with
\* execWithMirroring.
LazyPrimaryAnswer(k, ok) ==
    /\ k \in 1..Len(primary)
    /\ primary[k].state = "sent"
    /\ IsInitStatement(primary[k].st) \/ ok = (primary[k].st.kind = "ok")
    /\ LET r == primary[k]
           c == r.call
           s == [LazyState EXCEPT !.primary[k].state = IF ok THEN "ok" ELSE "failed"]
       IN  IF ~IsInitStatement(r.st) THEN LazyLeaves(s)
           ELSE IF ~ok
           THEN LazyLeaves([s EXCEPT !.lazy.initialized = FALSE,
                                     !.lazy.run[c].pc = "threw"])
           ELSE IF lazy.run[c].pos < Len(InitStatements)
           THEN LazyLeaves([s EXCEPT
                   !.primary = RemoteExec(@, InitStatements[lazy.run[c].pos + 1], 0, c),
                   !.lazy.run[c].pos = @ + 1])
           ELSE LazyLeaves(LazyExecPrimary([s EXCEPT !.lazy.initialized = TRUE], c))

\* The mirror endpoint answers request k, which a call awaits inside
\* initializeStorage: on an error initializeStorage returns false and the
\* call returns its cursor; else the call goes on as above.
LazyMirrorAnswer(k) ==
    /\ mirrorMode # "silent"
    /\ k \in 1..Len(mirror)
    /\ mirror[k].state = "sent"
    /\ LET r == mirror[k]
           c == r.call
           ok == mirrorMode = "ok" /\ r.st.kind = "ok"
           s == [LazyState EXCEPT !.mirror[k].state = IF ok THEN "ok" ELSE "failed"]
       IN  IF ~IsInitStatement(r.st) THEN LazyLeaves(s)
           ELSE IF ~ok
           THEN LazyLeaves([s EXCEPT !.lazy.mirrorInitialized = FALSE,
                                     !.lazy.run[c].pc = "returned"])
           ELSE IF lazy.run[c].pos < Len(InitStatements)
           THEN LazyLeaves([s EXCEPT
                   !.mirror = RemoteExec(@, InitStatements[lazy.run[c].pos + 1], 0, c),
                   !.lazy.run[c].pos = @ + 1])
           ELSE LazyLeaves(LazyHandOff([s EXCEPT !.lazy.mirrorInitialized = TRUE], c))

NextLazy ==
    \/ \E kind \in {"ok", "fail"} : LazyExec(kind)
    \/ \E k \in 1..Len(primary) : \E ok \in BOOLEAN : LazyPrimaryAnswer(k, ok)
    \/ \E k \in 1..Len(mirror) : LazyMirrorAnswer(k)

SpecLazy == InitClient /\ [][NextLazy]_vars

\* ------------------------------------------------------------ properties
TerminalApplied == \E i \in 1..Len(applied) : IsTerminal(applied[i])

RowData(fs) ==
    LET rs == SelectSeq(fs, LAMBDA f : f.type = "row")
    IN  [i \in 1..Len(rs) |-> rs[i].data]

IsPrefix(s, t) == Len(s) <= Len(t) /\ \A i \in 1..Len(s) : s[i] = t[i]

\* C1: every stream the producer emits is at most one columns frame, and
\* that first; then row frames carrying the rows of the underlying iterator
\* in its order; then exactly one terminal frame (meta or error), with which
\* the stream is closed, so that nothing follows it.
C1_FrameOrder ==
    /\ \A i \in 1..Len(emitted) : emitted[i].type = "columns" => i = 1
    /\ \A i \in 1..Len(emitted) : IsTerminal(emitted[i]) => i = Len(emitted)
    /\ IsPrefix(RowData(emitted), sqlCursor.rows)
    /\ streamClosed <=> (emitted # <<>> /\ IsTerminal(emitted[Len(emitted)]))
    /\ (streamClosed /\ emitted[Len(emitted)].type = "meta")
          => RowData(emitted) = sqlCursor.rows

C1_Witness ==
    /\ streamClosed
    /\ Len(emitted) = MaxRows + 2
    /\ emitted[1].type = "columns"
    /\ emitted[Len(emitted)].type = "meta"

\* C2: each pull enqueues exactly one frame and calls the row iterator at
\* most once, so the frames emitted never outnumber the pulls received.
C2_OneFramePerPull ==
    /\ Len(emitted) = pulls
    /\ iterCalls <= pulls

C2_Witness == pulls = MaxRows + 2 /\ iterCalls = MaxRows + 1 /\ streamClosed

\* C3 (as claimed): whatever the chunking, once the reader loop has ended
\* the messages applied to the cursor are exactly the frames encoded.
C3_RoundTrip == reader # "reading" => applied = emitted

\* C4 (as claimed): toArray() resolves only after a meta or error frame has
\* been applied to the cursor.
C4_ResolvedOnlyAfterTerminal == taState = "resolved" => TerminalApplied

\* C4 (amended): toArray() resolves only once the cursor is complete, which
\* a meta or error frame or the end of the stream brings about; once the
\* cursor is complete a waiting toArray() can resolve, and it resolves with
\* the rows accumulated at that moment.
C4_ResolvedOnlyWhenComplete ==
    /\ [](taState = "resolved" => cursor.streamingComplete)
    /\ [](cursor.streamingComplete => (TerminalApplied \/ reader = "done"))
    /\ []((taState = "waiting" /\ cursor.streamingComplete) => ENABLED ToArrayResume)
    /\ [][(taState # "resolved" /\ taState' = "resolved")
            => (cursor.streamingComplete /\ taResult' = Results(cursor))]_vars

C4_Witness ==
    /\ taState = "resolved"
    /\ ~TerminalApplied
    /\ reader = "done"
    /\ Len(taResult) = 2

\* C5 (as claimed): once the cursor is complete, columnNames, rows,
\* rowsRead, rowsWritten and error never change again.
C5_ImmutableOnceComplete ==
    [][cursor.streamingComplete =>
         /\ cursor'.columnNames = cursor.columnNames
         /\ cursor'.rows = cursor.rows
         /\ cursor'.rowsRead = cursor.rowsRead
         /\ cursor'.rowsWritten = cursor.rowsWritten
         /\ cursor'.error = cursor.error]_vars

SpecProducer == InitProducer /\ [][NextProducer]_vars

\* C6: next() hands out the buffered rows one at a time, each once and in
\* arrival order; it answers "no data" exactly when every row buffered at
\* the call has been handed out, and a later call resumes with the first
\* row not yet returned.
Returned(p) == Len(SelectSeq(SubSeq(nextLog, 1, p), LAMBDA e : ~e.done))

C6_NextInArrivalOrder ==
    /\ Returned(Len(nextLog)) <= Len(RowData(applied))
    /\ \A p \in 1..Len(nextLog) :
          IF nextLog[p].done
          THEN Returned(p) = nextLog[p].have
          ELSE /\ Returned(p) <= nextLog[p].have
               /\ nextLog[p].value
                    = RowObject(ColumnNames, RowData(applied)[Returned(p)])
    /\ cursor.currentIndex = Returned(Len(nextLog))

C6_Witness ==
    /\ Len(nextLog) = 3
    /\ nextLog[1].done /\ nextLog[1].have = 0
    /\ ~nextLog[2].done /\ nextLog[2].have = 1
    /\ ~nextLog[3].done /\ nextLog[3].have = 2
    /\ ~cursor.streamingComplete

\* C7: one exec call issues at most MAX_RETRIES + 1 requests, and each
\* request but the first is issued only after the one before it has failed.
C7_AttemptsBounded ==
    /\ Len(req) <= MAX_RETRIES + 1
    /\ \A k \in 1..(Len(req) - 1) : req[k].seen = "failed"

C7_Witness ==
    /\ Len(req) = MAX_RETRIES + 1
    /\ req[MAX_RETRIES].seen = "failed"
    /\ pc = "racing"

\* C8: when every one of the MAX_RETRIES + 1 attempts has failed the cursor
\* is complete and its error carries the message of the last failure; when
\* an attempt succeeds the cursor is populated from the stream of that
\* attempt only, and a stream read to its end that carries no error frame
\* leaves the cursor complete with error null and all rows of that stream.
AllFailed == Len(req) = MAX_RETRIES + 1 /\ \A k \in 1..Len(req) : req[k].seen = "failed"

C8_RetryCeiling ==
    /\ AllFailed =>
          /\ cursor.streamingComplete
          /\ cursor.error = FailedAfter(failLog[Len(failLog)])
          /\ cursor.rows = <<>>
    /\ \A k \in 1..Len(req) : req[k].seen = "ok" =>
          /\ k = Len(req)
          /\ IsPrefix(cursor.rows, req[k].result.rows)
          /\ (reader = "done" /\ req[k].result.failAt = 0 /\ ~req[k].result.failMeta)
                => /\ cursor.streamingComplete
                   /\ cursor.error = null
                   /\ cursor.rows = req[k].result.rows
                   /\ cursor.rowsRead = req[k].result.rowsRead

C8_Witness ==
    /\ Len(req) = MAX_RETRIES + 1
    /\ req[MAX_RETRIES].seen = "failed"
    /\ req[MAX_RETRIES + 1].seen = "ok"
    /\ reader = "done"
    /\ cursor.streamingComplete
    /\ cursor.error = null
    /\ Len(cursor.rows) = MaxRows

\* C9 (as claimed): once an attempt has timed out and the request of the
\* retry has been issued, the store is never given the statement of the
\* timed-out attempt.
Executed == {storeLog[i].attempt : i \in {j \in 1..Len(storeLog) : storeLog[j].ok}}

C9_TimedOutAttemptCancelled ==
    [][\A k \in 1..Len(req) :
          (req[k].timedOut /\ Len(req) > k /\ k \notin Executed) => k \notin Executed']_vars

ErrorApplied == \E i \in 1..Len(applied) : applied[i].type = "error"

CursorInError == cursor.streamingComplete /\ cursor.error # null

C11_FailureEndsInCursorError ==
    /\ AllFailed => (pc = "done" /\ handed /\ CursorInError)
    /\ reader = "failed" => (handed /\ CursorInError)
    /\ ErrorApplied => (handed /\ CursorInError)
    /\ (pc = "done" /\ ~CursorInError) => req[Len(req)].seen = "ok"

C11_Witness ==
    /\ reader = "failed"
    /\ BufferExceeded(buffer)
    /\ req[Len(req)].seen = "ok"
    /\ cursor.error = "Stream processing error: Buffer size exceeded maximum allowed size"
    /\ cursor.streamingComplete

\* C12 (as claimed): when the store rejects the statement at execute time
\* the executor answers with a frame stream (an ok response) whose frames
\* are one error frame and nothing before it, never with a response that
\* is not a stream.
Rejected == {storeLog[i].attempt : i \in {j \in 1..Len(storeLog) : ~storeLog[j].ok}}

C12_RejectionAnsweredByErrorFrame ==
    \A k \in Rejected :
        /\ req[k].resp = "ok"
        /\ req[k].result.failAt = 1

\* C13: mirror isolation.  Whatever the mirror endpoint does (answers,
\* fails every request, never answers), every call of the client's exec
\* has returned its cursor, that cursor holds exactly what the primary
\* endpoint made of the call's statement, and no mirror task has let a
\* failure out of its catch.
C13_MirrorIsolation ==
    /\ \A i \in 1..Len(calls) :
          /\ calls[i].returned
          /\ primary[calls[i].req].st = calls[i].st
          /\ calls[i].cursor = CursorOf(primary[calls[i].req])
    /\ \A t \in 1..Len(waitUntil) : waitUntil[t].state # "raised"

C13_Witness ==
    /\ mirrorMode = "fail"
    /\ Len(calls) = MaxCalls
    /\ \A t \in 1..Len(waitUntil) : waitUntil[t].state = "caught"
    /\ Len(waitUntil) = MaxCalls
    /\ calls[1].cursor = [complete |-> TRUE, rows |-> <<<<1>>>>, error |-> null]
    /\ calls[2].cursor.complete

\* C14: with a mirror endpoint and a ctx, every call of the client's exec
\* has handed ctx.waitUntil one task of its own that has issued the call's
\* statement against the mirror endpoint; the task ends as done only when
\* the mirror's stream has been drained, it keeps no rows, and the call has
\* returned the primary cursor whatever the state of the task.
MirrorRequests(t) == SelectSeq(mirror, LAMBDA r : r.task = t)

C14_MirrorTaskPerCall ==
    (config.mirror /\ config.ctx) =>
        /\ Len(waitUntil) = Len(calls)
        /\ \A i \in 1..Len(calls) :
              /\ calls[i].returned
              /\ waitUntil[i].kind = "exec"
              /\ waitUntil[i].sqls = <<calls[i].st>>
              /\ Len(MirrorRequests(i)) = 1
              /\ MirrorRequests(i)[1].st = calls[i].st
              /\ waitUntil[i].state = "done" <=> MirrorRequests(i)[1].state = "ok"
              /\ DOMAIN waitUntil[i] = {"kind", "sqls", "pos", "state"}

C14_Witness ==
    /\ config.mirror /\ config.ctx
    /\ Len(calls) = MaxCalls
    /\ calls[1].cursor.complete
    /\ waitUntil[1].state = "running"
    /\ waitUntil[2].state = "done"

\* C15 (as claimed): with a mirror endpoint but no ctx, every call of the
\* client's exec still starts the mirror execution of its statement.
C15_MirrorWithoutCtx ==
    (config.mirror /\ ~config.ctx) =>
        \A i \in 1..Len(calls) : \E k \in 1..Len(mirror) : mirror[k].st = calls[i].st

\* C16: the statements of a transaction are sent to the primary endpoint in
\* input order, each once, and a statement is sent only when the cursors of
\* all statements before it have been drained.
C16_OneAtATime ==
    /\ Len(primary) <= Len(mw.transaction)
    /\ \A j \in 1..Len(primary) : primary[j].st = mw.transaction[j]
    /\ \A j \in 1..(Len(primary) - 1) : Drained(primary[j])

C16_Witness ==
    /\ Len(primary) = 3
    /\ Drained(primary[1]) /\ Drained(primary[2])
    /\ primary[3].state = "sent"
    /\ Len(mw.results) = 2

\* C17: once executing statement k of a transaction has failed (the
\* primary rejected it, or the entry was invalid), no statement after k is
\* sent to the primary endpoint.
StatementFailed(k) ==
    \/ k <= Len(primary) /\ primary[k].state = "failed"
    \/ mw.failedAt = k

C18_FailureResponse ==
    (mw.pc = "responded" /\ mw.failedAt > 0) =>
        /\ mw.response.transaction
        /\ mw.response.success = FALSE
        /\ mw.response.result
             = [j \in 1..(mw.failedAt - 1) |-> ResultRecord(mw.transaction[j])]

\* C19: when every statement of a transaction succeeds, the response holds
\* one record per statement, record i being the result of statement i.
AllSucceed == mw.transaction # <<>> /\ \A i \in 1..Len(mw.transaction) : mw.transaction[i].kind = "ok"

C19_RecordPerStatement ==
    (mw.pc = "responded" /\ AllSucceed) =>
        /\ mw.response.status = 200
        /\ mw.response.transaction /\ mw.response.success
        /\ Len(mw.response.result) = Len(mw.transaction)
        /\ \A i \in 1..Len(mw.transaction) :
              /\ Drained(primary[i])
              /\ mw.response.result[i] = ResultRecord(primary[i].st)
              /\ primary[i].st = mw.transaction[i]

C19_Witness ==
    /\ mw.pc = "responded"
    /\ AllSucceed
    /\ Len(mw.transaction) = 3
    /\ mw.response.result[3].rows = <<<<3>>>>

\* C20 (as claimed): with mirroring configured, a transaction that failed at
\* statement k has had exactly its statements 1..k-1 given to mirror
\* tasks, and a transaction that succeeded has been given as a whole to one
\* replay task.
Mirrored == UNION {{waitUntil[t].sqls[j] : j \in 1..Len(waitUntil[t].sqls)} : t \in 1..Len(waitUntil)}

C20_PrefixReplayed ==
    (mw.pc = "responded" /\ mw.transaction # <<>> /\ ~mw.skipMirror
       /\ config.mirror /\ config.ctx) =>
        IF mw.failedAt > 0
        THEN Mirrored = {mw.transaction[j] : j \in 1..(mw.failedAt - 1)}
        ELSE \E t \in 1..Len(waitUntil) :
                waitUntil[t].kind = "replay" /\ waitUntil[t].sqls = mw.transaction

\* The statements whose effects the primary store holds: every statement the
\* store has executed successfully; nothing the middleware sends afterwards
\* takes an effect back.
StoreEffects == {primary[k].st : k \in {j \in 1..Len(primary) : primary[j].state = "ok"}}

\* C21 (as claimed): a transaction is atomic on the primary store: when one
\* of its statements has failed, the store holds no effect of the statements
\* before it.
C21_BatchAtomic ==
    (mw.pc = "responded" /\ mw.failedAt > 0) => StoreEffects = {}

\* C22: a request to /query/raw with skipMirror: true, be it a single
\* query, a transaction or a streamed query, has no statement sent to the
\* mirror and no mirror task created.
C22_SkipMirror == mw.skipMirror => mirror = <<>> /\ waitUntil = <<>>

C22_Witness ==
    /\ mw.pc = "responded"
    /\ mw.skipMirror
    /\ config.mirror /\ config.ctx
    /\ mw.response.status = 200
    /\ mw.sql.kind = "ok"
    /\ ~mw.streaming
    /\ Len(primary) = 1 /\ Drained(primary[1])

\* C24 (as claimed): the pull that finds the row iterator exhausted emits no
\* frame; the meta frame is emitted by the pull after it.
C24_NoFrameOnExhaustion ==
    [][(~cursorComplete /\ cursorComplete') => emitted' = emitted]_vars

\* C24 (amended): the pull that finds the row iterator exhausted emits on
\* that same pull the meta frame, or the error frame when reading the
\* counters throws, and closes the stream.
C24_MetaOnExhaustion ==
    [][(~cursorComplete /\ cursorComplete') =>
          /\ emitted' = Append(emitted,
                               IF sqlCursor.failMeta
                               THEN ErrorFrame(sqlCursor.message)
                               ELSE MetaFrame(sqlCursor.rowsRead, sqlCursor.rowsWritten))
          /\ metaSent' = ~sqlCursor.failMeta
          /\ streamClosed']_vars

C24_Witness ==
    /\ cursorComplete /\ metaSent /\ streamClosed
    /\ Len(sqlCursor.rows) = 1
    /\ pulls = 3
    /\ iterCalls = 2
    /\ Len(emitted) = 3
    /\ emitted[3] = MetaFrame(1, 0)

\* The next pull throws: rowIterator.next() does, or the iterator is
\* exhausted and reading the final counters does.
PullThrows ==
    /\ ~streamClosed /\ columnsSent /\ ~cursorComplete
    /\ \/ sqlCursor.failAt = rowIterator.pos + 1
       \/ rowIterator.pos >= Len(sqlCursor.rows) /\ sqlCursor.failMeta

ErrorFrames == SelectSeq(emitted, LAMBDA f : f.type = "error")

\* C25: a pull in which obtaining the next row or the final counters throws
\* emits exactly one error frame, carrying the exception's message, and
\* closes the stream; no row frame is emitted for the failed fetch and no
\* meta frame follows.
C25_ThrowEndsInErrorFrame ==
    /\ [][PullThrows =>
             /\ emitted' = Append(emitted, ErrorFrame(sqlCursor.message))
             /\ streamClosed'
             /\ ~metaSent']_vars
    /\ [](ErrorFrames # <<>> =>
             /\ streamClosed
             /\ Len(ErrorFrames) = 1
             /\ emitted[Len(emitted)] = ErrorFrame(sqlCursor.message)
             /\ \A i \in 1..Len(emitted) : emitted[i].type # "meta"
             /\ Len(RowData(emitted)) = iterCalls - 1)

C25_Witness ==
    /\ streamClosed
    /\ Len(sqlCursor.rows) = 2
    /\ sqlCursor.failAt = 2
    /\ Len(emitted) = 3
    /\ emitted[2].type = "row"
    /\ emitted[3] = ErrorFrame("SQLITE_ERROR")
    /\ iterCalls = 2

\* The whole text of the body, and the number of its lines the line loop
\* has been through: the lines before the one the buffer holds.
FullText == IF body.lf THEN BodyText(body.lines) ELSE WithoutLastLF(BodyText(body.lines))
LinesRead ==
    CHOOSE k \in 0..Len(body.lines) :
        Len(BodyText(SubSeq(body.lines, 1, k))) + Len(buffer) + Len(wire) = Len(FullText)

RECURSIVE ApplyAll(_, _)
ApplyAll(c, messages) ==
    IF messages = <<>> THEN c
    ELSE ApplyAll(ProcessStreamMessage(c, Head(messages)), Tail(messages))

\* C26: a line of the body that is not JSON is dropped without effect: what
\* has been applied to the cursor is exactly the frames among the lines read,
\* in order, the cursor is as those frames alone leave it, and it holds an
\* error only when an error frame was applied.
C26_NonJsonLineDropped ==
    /\ reader = "reading" =>
          /\ applied = FramesOf(SubSeq(body.lines, 1, LinesRead))
          /\ cursor = ApplyAll(NewCursor, applied)
    /\ reader = "done" =>
          /\ applied = FramesOf(body.lines)
          /\ cursor = CompleteStreaming(ApplyAll(NewCursor, applied))
    /\ reader = "failed" =>
          /\ IsPrefix(SubSeq(applied, 1, Len(applied) - 1), FramesOf(body.lines))
          /\ BufferExceeded(buffer)
    /\ reader # "failed" =>
          (cursor.error # null <=> \E i \in 1..Len(applied) : applied[i].type = "error")

C26_Witness ==
    /\ reader = "done"
    /\ Len(body.lines) = 3
    /\ body.lines[2].text = <<"<html>">>
    /\ applied = <<ColumnsFrame(ColumnNames), MetaFrame(MaxRows, 0)>>
    /\ cursor.error = null
    /\ cursor.streamingComplete

BufferOverflowError ==
    "Stream processing error: Buffer size exceeded maximum allowed size"

\* C27: when a chunk takes the text buffer over its limit, the cursor is
\* given the buffer-overflow error and marked complete and the read loop
\* stops; nothing that arrives afterwards is read or applied.
C27_OverflowFinalizes ==
    [][/\ (reader = "reading" /\ wire' # wire
             /\ Len(buffer) + Len(wire) - Len(wire') > MAX_BUFFER_SIZE) =>
              /\ reader' = "failed"
              /\ applied' = Append(applied, ErrorFrame(BufferOverflowError))
              /\ cursor'.error = BufferOverflowError
              /\ cursor'.streamingComplete
       /\ reader = "failed" =>
              /\ reader' = "failed"
              /\ applied' = applied
              /\ wire' = wire
              /\ cursor'.error = cursor.error
              /\ cursor'.rows = cursor.rows
              /\ cursor'.streamingComplete]_vars

C27_Witness ==
    /\ reader = "failed"
    /\ cursor.error = BufferOverflowError
    /\ cursor.streamingComplete
    /\ Len(applied) = 2
    /\ applied[1].type = "columns"
    /\ wire # <<>>
    /\ taState = "resolved"

\* C30: throughout a call of exec, failed and timed-out attempts and
\* retries included, the rows of the cursor are a prefix of the rows of one
\* execution of the statement.
C30_RowsOfOneExecution ==
    \/ cursor.rows = <<>>
    \/ \E e \in 1..Executions : IsPrefix(cursor.rows, StoreRows(e))

C30_Witness ==
    /\ Len(req) = 2
    /\ req[1].timedOut
    /\ Executions = 2
    /\ cursor.rows = StoreRows(2)
    /\ cursor.streamingComplete
    /\ cursor.error = null

\* C23 (as claimed): through the HTTP API a statement that fails on the
\* store is answered with a status outside 200..299 and an error message,
\* never with a 2xx response holding a result.
C23_FailureStatus ==
    (mw.pc = "responded" /\ mw.sql.kind = "fail") =>
        /\ mw.response.status \notin 200..299
        /\ mw.response.error # ""

\* C28 (as claimed): toArray() of a RemoteSqlStorageCursor returns every row
\* the executor wrote, once and in order, however the stream is chunked.
C28_EveryRowReturned ==
    taState = "resolved" => taResult = RowData(emitted)

\* C29 (as claimed): with the mirror configured and initialised, every call
\* of the lazily initialising client's exec issues its statement against
\* the mirror endpoint, with or without ctx.waitUntil.
C29_LazyCallMirrored ==
    \A c \in 1..Len(lazy.run) :
        (lazy.run[c].pc = "returned" /\ lazy.run[c].handedOff) =>
            \E k \in 1..Len(mirror) : mirror[k].st = lazy.run[c].st

\* C31 (as claimed): exec sends the statement again only after a failure of
\* the transport: an attempt the executor answered with a response that is
\* not ok is the last attempt of the call.
C31_NoResendAfterRejection ==
    \A k \in 1..Len(req) :
        (req[k].net = "delivered" /\ req[k].resp = "notok") => k = Len(req)

\* C32 (as claimed): every call of exec eventually leaves its cursor
\* complete, wherever the transport stalls.
C32_EventuallyComplete == <>cursor.streamingComplete

MetaFrames == SelectSeq(applied, LAMBDA f : f.type = "meta")

\* C33 (as claimed): a cursor that is complete with error null has had a
\* meta frame applied to it.
C33_CompleteHasMeta ==
    (cursor.streamingComplete /\ cursor.error = null) => MetaFrames # <<>>

\* C33 (amended): a cursor that is complete with error null has had a meta
\* frame applied to it, whose counts it holds, or its body has ended with no
\* meta or error frame applied; a body that ends so leaves the cursor
\* complete with error null and both counts 0.
C33_CompleteHasMetaOrEnded ==
    /\ (cursor.streamingComplete /\ cursor.error = null) =>
          IF MetaFrames # <<>>
          THEN /\ cursor.rowsRead = MetaFrames[Len(MetaFrames)].data[1]
               /\ cursor.rowsWritten = MetaFrames[Len(MetaFrames)].data[2]
          ELSE /\ reader = "done"
               /\ cursor.rowsRead = 0 /\ cursor.rowsWritten = 0
    /\ (reader = "done" /\ ~TerminalApplied) =>
          (cursor.streamingComplete /\ cursor.error = null)

C33_Witness ==
    /\ reader = "done"
    /\ Len(body.lines) = 3
    /\ body.lines[3].text = <<Open("meta"), Numeral(MaxRows)>>
    /\ applied = <<ColumnsFrame(ColumnNames), RowFrame(<<1>>)>>
    /\ cursor.streamingComplete
    /\ cursor.error = null
    /\ cursor.rowsRead = 0

\* C34 (as claimed): a body made of complete frames, each shorter than the
\* buffer limit, never ends the cursor with the buffer-overflow error,
\* however its frames are spread over chunks.
C34_NoOverflowOnFrames ==
    /\ \A i \in 1..Len(emitted) : Len(Encode(emitted[i])) <= MAX_BUFFER_SIZE
    /\ cursor.error # BufferOverflowError

\* The rows the cursor holds that the caller has not read.
Unread == Len(cursor.rows) - cursor.currentIndex

\* C35 (as claimed): while the caller does not read the cursor the producer
\* stops being pulled after a number of frames that does not depend on the
\* size of the result, so the unread rows never come to be a whole result of
\* the largest size, with the producer drained to its end.
C35_CallerThrottlesProducer ==
    nextLog = <<>> =>
        ~(Unread = MaxRows /\ Len(sqlCursor.rows) = MaxRows /\ streamClosed)

\* The requests the mirror endpoint has been sent for statement st.
SentToMirror(st) == {k \in 1..Len(mirror) : mirror[k].st = st}

\* C36 (as claimed): for a transaction with mirroring enabled, each of its
\* statements is sent to the mirror endpoint at most once.
C36_MirroredAtMostOnce ==
    (config.mirror /\ config.ctx /\ ~mw.skipMirror) =>
        \A j \in 1..Len(mw.transaction) :
            Cardinality(SentToMirror(mw.transaction[j])) <= 1

\* C37 (as claimed): the mirror store executes the statements of a
\* transaction in the order in which the primary store executes them:
\* of two statements sent to the mirror in that order, the later is not
\* executed while the earlier is still on its way.
C37_MirrorOrder ==
    \A j \in 1..Len(mirror) : \A k \in (j + 1)..Len(mirror) :
        (mirror[j].st.sql < mirror[k].st.sql /\ mirror[k].state # "sent")
            => mirror[j].state # "sent"

\* C38 (as claimed): the mirror endpoint executes only queries that
\* succeeded on the primary: no request the mirror endpoint has executed
\* carries a statement whose execution on the primary endpoint has failed.
FailedOnPrimary(st) ==
    \E j \in 1..Len(primary) : primary[j].st = st /\ primary[j].state = "failed"

C38_MirrorOnlySucceeded ==
    \A k \in 1..Len(mirror) :
        mirror[k].state # "sent" => ~FailedOnPrimary(mirror[k].st)

\* The calls whose run of initializeStorage on the primary endpoint has
\* succeeded: its last statement has been answered without an error.
InitSucceeded ==
    {primary[k].call : k \in {j \in 1..Len(primary) :
        primary[j].st = InitStatements[Len(InitStatements)] /\ primary[j].state = "ok"}}

\* A run of initializeStorage on the primary had succeeded before request k
\* was sent.
InitializedBefore(k) ==
    \E j \in 1..(k - 1) :
        primary[j].st = InitStatements[Len(InitStatements)] /\ primary[j].state = "ok"

\* C39 (as claimed): in the lazily initialising client initializeStorage of
\* the primary endpoint succeeds at most once per client, even when calls of
\* exec overlap, and no user query is sent to the primary endpoint before a
\* run of initializeStorage has succeeded.
C39_InitializedOnce ==
    /\ Cardinality(InitSucceeded) <= 1
    /\ \A k \in 1..Len(primary) :
           ~IsInitStatement(primary[k].st) => InitializedBefore(k)

====
